---- MODULE Spec2Model ----
(***************************************************************************)
(* Model of the FiveM map collision finder: the scan-hash-classify         *)
(* pipeline (find_collisions) of its three program variants                *)
(*   cli   Jim-G_fivem-map-collision-finder_v2_.bat/jim_g_collision_checker *)
(*   gui1  ..._v3_.exe_build/jim_g_collision_checker  (single-shot GUI)    *)
(*   gui2  ..._v3_.exe_build/jim_g_collision_gui      (progress GUI)       *)
(* and the entry points that call it.                                      *)
(*                                                                         *)
(* File names, patterns and resource names are sequences of one-character  *)
(* strings, so that str.lower, str.upper, fnmatch and os.path.splitext are *)
(* computed character by character.                                        *)
(***************************************************************************)
EXTENDS Integers, Sequences, FiniteSets, TLC

\* ------------------------------------------------------------------ bounds

\* At most this many files exist below the scanned root directory.
MaxFiles == 3

\* the most files a tree of a program run holds
MaxAppFiles == 2

\* the most keys the classification loop by itself is run over
MaxGroups == 2

\* ------------------------------------------------------------------ state

VARIABLES
  tree,      \* the files below the root directory
  rootKind,  \* "dir", or "missing" / "file" when the root is no directory
  calls,     \* how many find_collisions calls were made on this tree
  call,      \* the arguments of the last call
  ret,       \* what the last call returned, with its trace
  prev,      \* the call before the last one: [call, ret]
  app,       \* what the last run of an entry point left behind
  listing,   \* the files of the tree in the order in which os.walk lists them
  checkboxes \* self.file_vars of the single-shot GUI's window: every key's box

\* ------------------------------------------------------------- characters

UpperLetters ==
  <<"A","B","C","D","E","F","G","H","I","J","K","L","M",
    "N","O","P","Q","R","S","T","U","V","W","X","Y","Z">>

LowerLetters ==
  <<"a","b","c","d","e","f","g","h","i","j","k","l","m",
    "n","o","p","q","r","s","t","u","v","w","x","y","z">>

\* str.lower() and str.upper() as tables over the letters
LowerTable ==
  [c \in {UpperLetters[i] : i \in 1..Len(UpperLetters)} |->
     LowerLetters[CHOOSE i \in 1..Len(UpperLetters) : UpperLetters[i] = c]]

UpperTable ==
  [c \in {LowerLetters[i] : i \in 1..Len(LowerLetters)} |->
     UpperLetters[CHOOSE i \in 1..Len(LowerLetters) : LowerLetters[i] = c]]

\* str.lower() on one character
LowerChar(c) == IF c \in DOMAIN LowerTable THEN LowerTable[c] ELSE c

\* str.upper() on one character
UpperChar(c) == IF c \in DOMAIN UpperTable THEN UpperTable[c] ELSE c

\* filename.lower()
Lower(s) == [i \in 1..Len(s) |-> LowerChar(s[i])]

\* file_extension.upper()
Upper(s) == [i \in 1..Len(s) |-> UpperChar(s[i])]

\* the characters in use, in code point order
CharOrder == <<".">> \o UpperLetters \o <<"_">> \o LowerLetters

\* ord(c), up to the gaps
Ord(c) == CHOOSE i \in 1..Len(CharOrder) : CharOrder[i] = c

\* a < b on strings
RECURSIVE StrLess(_, _)
StrLess(a, b) ==
  IF a = <<>> THEN b # <<>>
  ELSE IF b = <<>> THEN FALSE
  ELSE IF Head(a) = Head(b) THEN StrLess(Tail(a), Tail(b))
  ELSE Ord(Head(a)) < Ord(Head(b))

\* str.startswith / str.endswith
StartsWith(s, p) == Len(p) <= Len(s) /\ SubSeq(s, 1, Len(p)) = p

EndsWith(s, p) == Len(p) <= Len(s) /\ SubSeq(s, Len(s) - Len(p) + 1, Len(s)) = p

\* x in list
InList(x, list) == \E i \in 1..Len(list) : list[i] = x

\* the matching of fnmatch for patterns made of literals, '*' and '?':
\* does name from position i on match pat from position j on
RECURSIVE MatchFrom(_, _, _, _)
MatchFrom(name, pat, i, j) ==
  IF j > Len(pat) THEN i > Len(name)
  ELSE IF pat[j] = "*"
       THEN MatchFrom(name, pat, i, j + 1)
              \/ (i <= Len(name) /\ MatchFrom(name, pat, i + 1, j))
  ELSE /\ i <= Len(name)
       /\ (pat[j] = "?" \/ pat[j] = name[i])
       /\ MatchFrom(name, pat, i + 1, j + 1)

\* index of the last '.' in p, 0 when there is none (str.rfind)
LastDot(p) ==
  IF \E i \in 1..Len(p) : p[i] = "."
  THEN CHOOSE i \in 1..Len(p) : p[i] = "." /\ \A j \in (i+1)..Len(p) : p[j] # "."
  ELSE 0

\* os.path.splitext(filename)[1] of a basename: the text from the last dot on,
\* empty when there is no dot or only leading dots precede it
SplitExt(p) ==
  LET dotIndex == LastDot(p) IN
  IF dotIndex > 0 /\ \E i \in 1..(dotIndex - 1) : p[i] # "."
  THEN SubSeq(p, dotIndex, Len(p))
  ELSE <<>>

\* ------------------------------------------------- the pattern vocabulary

P_ymap == <<"*", ".", "y", "m", "a", "p">>
P_ybn  == <<"*", ".", "y", "b", "n">>
P_ymt  == <<"*", ".", "y", "m", "t">>
P_ytd  == <<"*", ".", "y", "t", "d">>
P_ydr  == <<"*", ".", "y", "d", "r">>
P_ydd  == <<"*", ".", "y", "d", "d">>
P_ytyp == <<"*", ".", "y", "t", "y", "p">>
P_ycd  == <<"*", ".", "y", "c", "d">>
P_ynv  == <<"*", ".", "y", "n", "v">>
P_ypt  == <<"*", ".", "y", "p", "t">>

\* the key "light_ymaps"
LIGHT_YMAPS == <<"l","i","g","h","t","_","y","m","a","p","s">>

\* the marker "light_ymaps_ignored"
LIGHT_YMAPS_IGNORED == LIGHT_YMAPS \o <<"_","i","g","n","o","r","e","d">>

\* the keys of ALL_MAP_RELATED_FILES, in the dictionary's order
ALL_MAP_RELATED_FILES ==
  <<P_ymap, LIGHT_YMAPS, P_ybn, P_ymt, P_ytd, P_ydr, P_ydd, P_ytyp, P_ycd, P_ynv, P_ypt>>

\* lightmap_patterns = ('lodlights*.ymap', 'vw_*.ymap')
lightmap_patterns ==
  << <<"l","o","d","l","i","g","h","t","s","*",".","y","m","a","p">>,
     <<"v","w","_","*",".","y","m","a","p">> >>

DOT_YMAP == <<".", "y", "m", "a", "p">>
LODLIGHTS == <<"l","o","d","l","i","g","h","t","s">>
VW_ == <<"v","w","_">>

\* resource sentinels and the relative path of the root itself
ROOT_DIR == <<"R","O","O","T","_","D","I","R">>
UNKNOWN_RESOURCE == <<"U","N","K","N","O","W","N","_","R","E","S","O","U","R","C","E">>
CURDIR == <<".">>

\* ------------------------------------------------------- the file system

\* The places where a file may exist below the root, in the order in which
\* os.walk (top-down) comes across them: dir is the directory relative to the
\* root (<<>> is the root itself), name the file's name as stored on disk.
PathPool ==
  << [dir |-> <<>>,                   name |-> <<"a",".","y","m","a","p">>],
     [dir |-> <<>>,                   name |-> <<"l","o","d","l","i","g","h","t","s",".","y","m","a","p">>],
     [dir |-> << <<"A">> >>,          name |-> <<"A",".","Y","M","A","P">>],
     [dir |-> << <<"A">> >>,          name |-> <<"v","w","_","c",".","y","b","n">>],
     [dir |-> << <<"A">>, <<"s">> >>, name |-> <<"a",".","y","m","a","p">>],
     [dir |-> << <<"B">> >>,          name |-> <<"V","W","_","b",".","y","m","a","p">>],
     [dir |-> << <<"B">> >>,          name |-> <<"v","w","_","c",".","y","b","n">>] >>

Paths == 1..Len(PathPool)

\* the names of the pool as stored, with no case folding
filename_as_stored_of == [i \in Paths |-> PathPool[i].name]

\* filename.lower() of every file of the pool
filename_lower_of == [i \in Paths |-> Lower(PathPool[i].name)]

\* the fnmatch results for the pool's names and the patterns in use, computed
\* once
FnmatchTable ==
  [q \in {<<filename_lower_of[i], pat>> :
            i \in Paths,
            pat \in {P_ymap, P_ybn, lightmap_patterns[1], lightmap_patterns[2]}} |->
     MatchFrom(q[1], q[2], 1, 1)]

\* fnmatch.fnmatch(name, pat); the names given to it are already lower-cased
\* by the caller
fnmatch(name, pat) ==
  IF <<name, pat>> \in DOMAIN FnmatchTable
  THEN FnmatchTable[<<name, pat>>]
  ELSE MatchFrom(name, pat, 1, 1)

\* What a file holds: its bytes, and whether reading it fails (fault "io":
\* open() or one of the read() calls raises an I/O error).
Contents == {"B1", "B2"}

FileStates ==
  {[bytes |-> b, fault |-> "none"] : b \in Contents}
    \cup {[bytes |-> "B1", fault |-> "io"]}

\* A directory tree: the files that exist, each with what it holds.
Trees ==
  UNION {[S -> FileStates] : S \in {T \in SUBSET Paths : Cardinality(T) <= MaxFiles}}

\* The pattern lists handed to find_collisions.
PatternLists ==
  {<<>>, <<P_ymap>>, <<P_ybn>>, <<P_ymap, P_ybn>>, <<P_ybn, P_ymap>>}

None == "None"

\* hashlib.md5 of a file's bytes (hexdigest)
MD5(bytes) == CASE bytes = "B1" -> "H1" [] bytes = "B2" -> "H2"

\* get_file_hash without its try/except, yielding a digest for any file
get_file_hash_unguarded(file) == MD5(file.bytes)

\* get_file_hash: the digest, or None when open() or a read() raises
get_file_hash(file) ==
  IF file.fault = "io" THEN None ELSE MD5(file.bytes)

\* `if file_hash:` - None and the empty string are falsy
Truthy(file_hash) == file_hash # None /\ file_hash # ""

\* the files os.walk(directory) yields, in order; nothing when the directory is
\* missing or is not a directory (os.walk swallows the scandir error)
WalkOrder(fs, kind) ==
  IF kind = "dir"
  THEN SelectSeq(listing, LAMBDA i : i \in DOMAIN fs)
  ELSE <<>>

\* the files of a set in the order of the pool
PoolOrder(S) == SelectSeq([i \in Paths |-> i], LAMBDA i : i \in S)

\* os.path.relpath(root, directory).split(os.path.sep)
RelParts(dir) == IF dir = <<>> THEN <<CURDIR>> ELSE dir

\* ------------------------------------------------------------ trace events

WalkEvent(i) == [ev |-> "walk", file |-> i, pct |-> 0, msg |-> ""]

HashEvent(i) == [ev |-> "hash", file |-> i, pct |-> 0, msg |-> ""]

CallbackEvent(percentage, message) ==
  [ev |-> "cb", file |-> 0, pct |-> percentage, msg |-> message]

\* ----------------------------------------------- the steps of find_collisions

\* files_to_search_list: a copy of file_patterns, with the "light_ymaps" key
\* appended when light maps are searched along with *.ymap
FilesToSearchList(file_patterns, lightmap_exclusion) ==
  IF ~lightmap_exclusion /\ InList(P_ymap, file_patterns)
  THEN Append(file_patterns, LIGHT_YMAPS)
  ELSE file_patterns

\* a files_to_search_list that is the caller's list itself, not a copy: the
\* caller's list after the appends
PatternsOfCaller_aliased(file_patterns, files_to_search_list) == files_to_search_list

\* files_to_search_list = file_patterns[:] is a copy: the list the caller
\* passed, and that the walk matches against, stays as it was
PatternsOfCaller(file_patterns, files_to_search_list) == file_patterns

\* an ignored list that names the whole vocabulary, selected or not
IgnoredPatternsList_whole_vocabulary(file_patterns, lightmap_exclusion) ==
  SelectSeq(ALL_MAP_RELATED_FILES, LAMBDA p : p # LIGHT_YMAPS)
    \o (IF lightmap_exclusion THEN <<LIGHT_YMAPS_IGNORED>> ELSE <<>>)

\* ignored_patterns_list
IgnoredPatternsList(file_patterns, lightmap_exclusion) ==
  SelectSeq(ALL_MAP_RELATED_FILES,
            LAMBDA p : ~InList(p, file_patterns) /\ p # LIGHT_YMAPS)
    \o (IF lightmap_exclusion THEN <<LIGHT_YMAPS_IGNORED>> ELSE <<>>)

\* is_lightmap that knows the lodlights pattern only
IsLightmapGui_lodlights_only(filename_lower, lightmap_exclusion) ==
  /\ lightmap_exclusion
  /\ EndsWith(filename_lower, DOT_YMAP)
  /\ fnmatch(filename_lower, lightmap_patterns[1])

\* is_lightmap of the two GUI variants
IsLightmapGui(filename_lower, lightmap_exclusion) ==
  /\ lightmap_exclusion
  /\ EndsWith(filename_lower, DOT_YMAP)
  /\ \E k \in 1..Len(lightmap_patterns) : fnmatch(filename_lower, lightmap_patterns[k])

\* matched that consults the first pattern only
Matched_first_pattern(filename_lower, file_patterns) ==
  file_patterns # <<>> /\ fnmatch(filename_lower, file_patterns[1])

\* matched: any(fnmatch.fnmatch(filename_lower, pattern) for pattern in file_patterns)
Matched(filename_lower, file_patterns) ==
  \E k \in 1..Len(file_patterns) : fnmatch(filename_lower, file_patterns[k])

\* a resource name taken from the directory that holds the file
ResourceGui2_innermost(dir) ==
  LET resource_path_parts == RelParts(dir) IN
  IF resource_path_parts # <<>> /\ resource_path_parts[1] # CURDIR
  THEN resource_path_parts[Len(resource_path_parts)]
  ELSE ROOT_DIR

\* resource_name of the progress GUI, per walked directory
ResourceGui2(dir) ==
  LET resource_path_parts == RelParts(dir) IN
  IF resource_path_parts # <<>> /\ resource_path_parts[1] # CURDIR
  THEN resource_path_parts[1]
  ELSE ROOT_DIR

\* the file_list entry of pool file i
FileDataGui2(i) ==
  [file |-> i,
   path |-> [base |-> "directory", dir |-> PathPool[i].dir, name |-> PathPool[i].name],
   filename_lower |-> filename_lower_of[i],
   resource |-> ResourceGui2(PathPool[i].dir)]

\* the walk loop of the progress GUI: file_list
FileListGui2(fs, kind, file_patterns, lightmap_exclusion) ==
  LET kept == SelectSeq(WalkOrder(fs, kind),
                 LAMBDA i : /\ ~IsLightmapGui(filename_lower_of[i], lightmap_exclusion)
                            /\ Matched(filename_lower_of[i], file_patterns))
  IN [k \in 1..Len(kept) |-> FileDataGui2(kept[k])]

\* an append that keeps one record per resource under a key
DictAppend_per_resource(d, file_key, info) ==
  IF \E k \in 1..Len(d) : d[k].key = file_key
  THEN [k \in 1..Len(d) |->
          IF /\ d[k].key = file_key
             /\ \A j \in 1..Len(d[k].infos) : d[k].infos[j].resource # info.resource
          THEN [d[k] EXCEPT !.infos = Append(@, info)] ELSE d[k]]
  ELSE Append(d, [key |-> file_key, infos |-> <<info>>])

\* an insertion at the front of the list under a key
DictAppend_at_front(d, file_key, info) ==
  IF \E k \in 1..Len(d) : d[k].key = file_key
  THEN [k \in 1..Len(d) |->
          IF d[k].key = file_key THEN [d[k] EXCEPT !.infos = <<info>> \o @] ELSE d[k]]
  ELSE Append(d, [key |-> file_key, infos |-> <<info>>])

\* file_info_dict[file_key].append(info) on an insertion-ordered dictionary,
\* kept as a sequence of [key, infos]
DictAppend(d, file_key, info) ==
  IF \E k \in 1..Len(d) : d[k].key = file_key
  THEN [k \in 1..Len(d) |->
          IF d[k].key = file_key THEN [d[k] EXCEPT !.infos = Append(@, info)] ELSE d[k]]
  ELSE Append(d, [key |-> file_key, infos |-> <<info>>])

\* the record the GUI variants store for a hashed file: the path relative to
\* the scanned directory, the hash and the resource
InfoGui(file_data, file_hash) ==
  [file |-> file_data.file,
   path |-> [file_data.path EXCEPT !.base = "."],
   hash |-> file_hash,
   resource |-> file_data.resource]

\* the hashing loop of the single-shot GUI: file_info_dict
RECURSIVE FileInfoDictGui(_, _, _)
FileInfoDictGui(file_list, fs, file_info_dict) ==
  IF file_list = <<>> THEN file_info_dict
  ELSE LET file_data == Head(file_list)
           file_hash == get_file_hash(fs[file_data.file])
       IN FileInfoDictGui(Tail(file_list), fs,
            IF Truthy(file_hash)
            THEN DictAppend(file_info_dict, file_data.filename_lower,
                            InfoGui(file_data, file_hash))
            ELSE file_info_dict)

\* an entry of categorized_results as the defaultdict creates it
EmptyBucket == [conflicts |-> <<>>, duplicates |-> <<>>]

\* categorized_results[file_extension][kind][filename].extend(infos)
Extend(categorized_results, file_extension, kind, filename, infos) ==
  LET bucket == IF file_extension \in DOMAIN categorized_results
                THEN categorized_results[file_extension] ELSE EmptyBucket
      old == IF filename \in DOMAIN bucket[kind] THEN bucket[kind][filename] ELSE <<>>
      grown == [bucket EXCEPT ![kind] = (filename :> (old \o infos)) @@ @]
  IN (file_extension :> grown) @@ categorized_results

\* set(info['hash'] for info in infos)
UniqueHashes(infos) == {infos[k].hash : k \in 1..Len(infos)}

\* a classification that reports a filename held by a single file as well
Classify_any_size(categorized_results, filename, infos) ==
  LET file_extension == Upper(SplitExt(filename))
      unique_hashes == UniqueHashes(infos)
  IN IF Cardinality(unique_hashes) > 1
     THEN Extend(categorized_results, file_extension, "conflicts", filename, infos)
     ELSE Extend(categorized_results, file_extension, "duplicates", filename, infos)

\* a classification that decides by the size of the group, not by its hashes
Classify_by_size(categorized_results, filename, infos) ==
  IF Len(infos) > 1
  THEN LET file_extension == Upper(SplitExt(filename))
       IN IF Len(infos) > 2
          THEN Extend(categorized_results, file_extension, "conflicts", filename, infos)
          ELSE Extend(categorized_results, file_extension, "duplicates", filename, infos)
  ELSE categorized_results

\* a classification that keys the bucket by the extension as it is
Classify_extension_as_is(categorized_results, filename, infos) ==
  IF Len(infos) > 1
  THEN LET file_extension == SplitExt(filename)
           unique_hashes == UniqueHashes(infos)
       IN IF Cardinality(unique_hashes) > 1
          THEN Extend(categorized_results, file_extension, "conflicts", filename, infos)
          ELSE Extend(categorized_results, file_extension, "duplicates", filename, infos)
  ELSE categorized_results

\* a classification that compares the hashes of the first two records only
Classify_first_two(categorized_results, filename, infos) ==
  IF Len(infos) > 1
  THEN LET file_extension == Upper(SplitExt(filename))
       IN IF infos[1].hash # infos[2].hash
          THEN Extend(categorized_results, file_extension, "conflicts", filename, infos)
          ELSE Extend(categorized_results, file_extension, "duplicates", filename, infos)
  ELSE categorized_results

\* the body of the classification loop for one filename
Classify(categorized_results, filename, infos) ==
  IF Len(infos) > 1
  THEN LET file_extension == Upper(SplitExt(filename))
           unique_hashes == UniqueHashes(infos)
       IN IF Cardinality(unique_hashes) > 1
          THEN Extend(categorized_results, file_extension, "conflicts", filename, infos)
          ELSE Extend(categorized_results, file_extension, "duplicates", filename, infos)
  ELSE categorized_results

\* a dictionary that outlives the call: what the call before left in it
categorized_results_kept ==
  IF calls > 0 THEN ret.categorized_results ELSE <<>>

\* categorized_results = defaultdict(...): a new, empty dictionary in each call
categorized_results_new == <<>>

\* the classification loop over file_info_dict.items(): categorized_results
RECURSIVE Categorize(_, _)
Categorize(items, categorized_results) ==
  IF items = <<>> THEN categorized_results
  ELSE Categorize(Tail(items),
                  Classify(categorized_results, Head(items).key, Head(items).infos))

\* a percentage that scales the hashing phase to 100 instead of 80
Percentage_scaled_100(current_progress, total_files) ==
  10 + ((current_progress * 100) \div total_files)

\* percentage = 10 + int((current_progress / total_files) * 80)
Percentage(current_progress, total_files) ==
  10 + ((current_progress * 80) \div total_files)

\* `if progress_callback: progress_callback(percentage, message)`
Callback(progress_callback, percentage, message) ==
  IF progress_callback THEN <<CallbackEvent(percentage, message)>> ELSE <<>>

\* a walk that starts without a callback
DiscoveryCallback_absent(progress_callback) == <<>>

\* before the walk: progress_callback(5, "Collecting file paths...")
DiscoveryCallback(progress_callback) ==
  Callback(progress_callback, 5, "Collecting file paths")

\* before the early return: progress_callback(100, "No relevant files found.")
NoFilesCallback(progress_callback) ==
  Callback(progress_callback, 100, "No relevant files found")

\* a hashing path that makes no callback after the loop
AnalysisCallback_absent(progress_callback) == <<>>

\* after the hashing loop: progress_callback(95, "Analyzing results...")
AnalysisCallback(progress_callback) ==
  Callback(progress_callback, 95, "Analyzing results")

\* an iteration that records the file only when a callback is given
HashStepGui2_record_under_callback(loop, file_data, fs, total_files, progress_callback) ==
  LET file_hash == get_file_hash(fs[file_data.file])
      current_progress == loop.current_progress + 1
  IN [file_info_dict |->
        IF Truthy(file_hash) /\ progress_callback
        THEN DictAppend(loop.file_info_dict, file_data.filename_lower,
                        InfoGui(file_data, file_hash))
        ELSE loop.file_info_dict,
      current_progress |-> current_progress,
      events |-> loop.events
                   \o <<HashEvent(file_data.file)>>
                   \o Callback(progress_callback,
                               Percentage(current_progress, total_files),
                               "Hashing files")]

\* an iteration that counts and reports only the files it could hash
HashStepGui2_report_when_hashed(loop, file_data, fs, total_files, progress_callback) ==
  LET file_hash == get_file_hash(fs[file_data.file])
      current_progress == loop.current_progress + (IF Truthy(file_hash) THEN 1 ELSE 0)
  IN [file_info_dict |->
        IF Truthy(file_hash)
        THEN DictAppend(loop.file_info_dict, file_data.filename_lower,
                        InfoGui(file_data, file_hash))
        ELSE loop.file_info_dict,
      current_progress |-> current_progress,
      events |-> loop.events
                   \o <<HashEvent(file_data.file)>>
                   \o (IF Truthy(file_hash)
                       THEN Callback(progress_callback,
                                     Percentage(current_progress, total_files),
                                     "Hashing files")
                       ELSE <<>>)]

\* one iteration of the hashing loop of the progress GUI: get_file_hash, the
\* append to file_info_dict when there is a hash, the count and the callback
HashStepGui2(loop, file_data, fs, total_files, progress_callback) ==
  LET file_hash == get_file_hash(fs[file_data.file])
      current_progress == loop.current_progress + 1
  IN [file_info_dict |->
        IF Truthy(file_hash)
        THEN DictAppend(loop.file_info_dict, file_data.filename_lower,
                        InfoGui(file_data, file_hash))
        ELSE loop.file_info_dict,
      current_progress |-> current_progress,
      events |-> loop.events
                   \o <<HashEvent(file_data.file)>>
                   \o Callback(progress_callback,
                               Percentage(current_progress, total_files),
                               "Hashing files")]

\* the hashing loop of the progress GUI over file_list
RECURSIVE HashLoopGui2(_, _, _, _, _)
HashLoopGui2(file_list, fs, total_files, progress_callback, loop) ==
  IF file_list = <<>> THEN loop
  ELSE HashLoopGui2(Tail(file_list), fs, total_files, progress_callback,
                    HashStepGui2(loop, Head(file_list), fs, total_files, progress_callback))

\* find_collisions of the progress GUI: the three values it returns, with
\* file_list and the trace of what it did
find_collisions_gui2(fs, kind, file_patterns, lightmap_exclusion, progress_callback) ==
  LET files_to_search_list == FilesToSearchList(file_patterns, lightmap_exclusion)
      ignored_patterns_list == IgnoredPatternsList(file_patterns, lightmap_exclusion)
      walked == WalkOrder(fs, kind)
      patterns_of_caller == PatternsOfCaller(file_patterns, files_to_search_list)
      file_list == FileListGui2(fs, kind, patterns_of_caller, lightmap_exclusion)
      total_files == Len(file_list)
      discovery == DiscoveryCallback(progress_callback)
                     \o [k \in 1..Len(walked) |-> WalkEvent(walked[k])]
      hashed == HashLoopGui2(file_list, fs, total_files, progress_callback,
                  [file_info_dict |-> <<>>, current_progress |-> 0, events |-> <<>>])
  IN IF total_files = 0
     THEN [categorized_results |-> <<>>,
           files_to_search_list |-> files_to_search_list,
           ignored_patterns_list |-> ignored_patterns_list,
           file_patterns |-> patterns_of_caller,
           file_list |-> file_list,
           events |-> discovery \o NoFilesCallback(progress_callback)]
     ELSE [categorized_results |-> Categorize(hashed.file_info_dict, categorized_results_new),
           files_to_search_list |-> files_to_search_list,
           ignored_patterns_list |-> ignored_patterns_list,
           file_patterns |-> patterns_of_caller,
           file_list |-> file_list,
           events |-> discovery \o hashed.events \o AnalysisCallback(progress_callback)]

\* ----------------------------------- find_collisions of the single-shot GUI

\* resource_name of the single-shot GUI, per walked directory
ResourceGui1(dir) ==
  LET resource_path_parts == RelParts(dir) IN
  IF resource_path_parts # <<>> THEN resource_path_parts[1] ELSE ROOT_DIR

\* the file_list entry of pool file i
FileDataGui1(i) ==
  [file |-> i,
   path |-> [base |-> "directory", dir |-> PathPool[i].dir, name |-> PathPool[i].name],
   filename_lower |-> filename_lower_of[i],
   resource |-> ResourceGui1(PathPool[i].dir)]

\* the walk loop of the single-shot GUI: file_list
FileListGui1(fs, kind, file_patterns, lightmap_exclusion) ==
  LET kept == SelectSeq(WalkOrder(fs, kind),
                 LAMBDA i : /\ ~IsLightmapGui(filename_lower_of[i], lightmap_exclusion)
                            /\ Matched(filename_lower_of[i], file_patterns))
  IN [k \in 1..Len(kept) |-> FileDataGui1(kept[k])]

\* find_collisions of the single-shot GUI
find_collisions_gui1(fs, kind, file_patterns, lightmap_exclusion) ==
  LET walked == WalkOrder(fs, kind)
      files_to_search_list == FilesToSearchList(file_patterns, lightmap_exclusion)
      patterns_of_caller == PatternsOfCaller(file_patterns, files_to_search_list)
      file_list == FileListGui1(fs, kind, patterns_of_caller, lightmap_exclusion)
  IN [categorized_results |->
        Categorize(FileInfoDictGui(file_list, fs, <<>>), <<>>),
      files_to_search_list |-> files_to_search_list,
      ignored_patterns_list |-> IgnoredPatternsList(file_patterns, lightmap_exclusion),
      file_patterns |-> patterns_of_caller,
      file_list |-> file_list,
      events |-> [k \in 1..Len(walked) |-> WalkEvent(walked[k])]
                   \o [k \in 1..Len(file_list) |-> HashEvent(file_list[k].file)]]

\* ---------------------------------------------------------------- reports

\* the label "*.ymap (including lights)"
YMAP_INCLUDING_LIGHTS ==
  P_ymap \o <<" ","(","i","n","c","l","u","d","i","n","g"," ","l","i","g","h","t","s",")">>

\* the label "lodlights*.ymap/vw_*.ymap"
LIGHTS_IGNORED_LABEL == lightmap_patterns[1] \o <<"/">> \o lightmap_patterns[2]

\* the header lists both report generators build from files_to_search and
\* ignored_patterns, with the totals they are handed and the result they render
GenerateReport(output_format, categorized_results, total_conflicts, total_duplicates, files_to_search, ignored_patterns) ==
  [format |-> output_format,
   patterns_searched |->
     SelectSeq(files_to_search, LAMBDA p : p # LIGHT_YMAPS)
       \o (IF ~InList(LIGHT_YMAPS_IGNORED, ignored_patterns)
           THEN <<YMAP_INCLUDING_LIGHTS>> ELSE <<>>),
   patterns_ignored |->
     SelectSeq(ignored_patterns, LAMBDA p : p # LIGHT_YMAPS_IGNORED)
       \o (IF InList(LIGHT_YMAPS_IGNORED, ignored_patterns)
           THEN <<LIGHTS_IGNORED_LABEL>> ELSE <<>>),
   body |-> categorized_results,
   total_conflicts |-> total_conflicts,
   total_duplicates |-> total_duplicates]

\* no report file
NoReport == [format |-> "none"]

\* the generator raised instead of returning a report
ReportRaised == [format |-> "raised"]

\* the last key of sorted(categorized_results.items())
LastSorted(categorized_results) ==
  CHOOSE ext \in DOMAIN categorized_results :
     \A other \in DOMAIN categorized_results \ {ext} : StrLess(other, ext)

\* _generate_lua_report of the single-shot GUI: its two summary lines print
\* len(data["conflicts"]) and len(data["duplicates"]), data being the
\* variable of the loop over the sorted buckets: the last bucket after the
\* loop, and unbound (UnboundLocalError) when there was no bucket
generate_lua_report_gui1(categorized_results, total_conflicts, total_duplicates, files_to_search, ignored_patterns) ==
  IF DOMAIN categorized_results = {} THEN ReportRaised
  ELSE LET data == categorized_results[LastSorted(categorized_results)]
       IN [GenerateReport("lua", categorized_results, total_conflicts,
                          total_duplicates, files_to_search, ignored_patterns)
             EXCEPT !.total_conflicts = Cardinality(DOMAIN data["conflicts"]),
                    !.total_duplicates = Cardinality(DOMAIN data["duplicates"])]

\* ------------------------------------------------ find_collisions of the CLI

\* ignored_patterns as get_files_to_search_interactively builds it
InteractiveIgnoredPatterns(search_patterns, light_map_ignored) ==
  SelectSeq(ALL_MAP_RELATED_FILES,
            LAMBDA p : ~InList(p, search_patterns) /\ p # LIGHT_YMAPS)
    \o (IF light_map_ignored THEN <<LIGHT_YMAPS_IGNORED>> ELSE <<>>)

\* an is_light_ymap that looks at the prefix only
IsLightYmapCli_any_extension(filename_lower, ignore_light_ymaps) ==
  /\ ignore_light_ymaps
  /\ (StartsWith(filename_lower, LODLIGHTS) \/ StartsWith(filename_lower, VW_))

\* is_light_ymap of the CLI
IsLightYmapCli(filename_lower, ignore_light_ymaps) ==
  /\ ignore_light_ymaps
  /\ EndsWith(filename_lower, DOT_YMAP)
  /\ (StartsWith(filename_lower, LODLIGHTS) \/ StartsWith(filename_lower, VW_))

\* the walk loop of the CLI: files_to_process (files_to_search may be None)
FilesToProcessCli(fs, kind, files_to_search, ignore_light_ymaps) ==
  LET kept == SelectSeq(WalkOrder(fs, kind),
                 LAMBDA i : /\ files_to_search # None
                            /\ files_to_search # <<>>
                            /\ Matched(filename_lower_of[i], files_to_search)
                            /\ ~IsLightYmapCli(filename_lower_of[i], ignore_light_ymaps))
  IN [k \in 1..Len(kept) |->
        [file |-> kept[k],
         path |-> [base |-> "directory", dir |-> PathPool[kept[k]].dir,
                   name |-> PathPool[kept[k]].name],
         filename_lower |-> filename_lower_of[kept[k]]]]

\* resource_name of the CLI, from the file's own relative path
ResourceCli(file_path) ==
  LET resource_parts == file_path.dir \o <<file_path.name>> IN
  IF resource_parts # <<>> THEN resource_parts[1] ELSE UNKNOWN_RESOURCE

\* the hashing loop of the CLI: file_info_dict
RECURSIVE FileInfoDictCli(_, _, _)
FileInfoDictCli(files_to_process, fs, file_info_dict) ==
  IF files_to_process = <<>> THEN file_info_dict
  ELSE LET file_path == Head(files_to_process).path
           filename == file_path.name
           file_key == filename_lower_of[Head(files_to_process).file]
           file_hash == get_file_hash(fs[Head(files_to_process).file])
           resource_name == ResourceCli(file_path)
       IN FileInfoDictCli(Tail(files_to_process), fs,
            IF Truthy(file_hash)
            THEN DictAppend(file_info_dict, file_key,
                            [file |-> Head(files_to_process).file,
                             path |-> file_path,
                             hash |-> file_hash,
                             resource |-> resource_name])
            ELSE file_info_dict)

\* the classification loop of the CLI, which also counts
RECURSIVE CategorizeCli(_, _)
CategorizeCli(items, acc) ==
  IF items = <<>> THEN acc
  ELSE LET filename == Head(items).key
           infos == Head(items).infos
           unique_hashes == UniqueHashes(infos)
       IN CategorizeCli(Tail(items),
            IF Len(infos) > 1
            THEN IF Cardinality(unique_hashes) > 1
                 THEN [acc EXCEPT
                         !.categorized_results =
                            Extend(@, Upper(SplitExt(filename)), "conflicts", filename, infos),
                         !.total_conflicts = @ + Cardinality(unique_hashes)]
                 ELSE [acc EXCEPT
                         !.categorized_results =
                            Extend(@, Upper(SplitExt(filename)), "duplicates", filename, infos),
                         !.total_duplicates = @ + 1]
            ELSE acc)

\* find_collisions of the CLI (it returns nothing: what it computed is kept
\* here for inspection); output_file is None, or a path that can or cannot be
\* written
find_collisions_cli(fs, kind, files_to_search, ignored_patterns, output_file, output_format) ==
  LET ignore_light_ymaps ==
        InList(LIGHT_YMAPS_IGNORED, IF ignored_patterns # None THEN ignored_patterns ELSE <<>>)
      walked == WalkOrder(fs, kind)
      files_to_process == FilesToProcessCli(fs, kind, files_to_search, ignore_light_ymaps)
      counted == CategorizeCli(FileInfoDictCli(files_to_process, fs, <<>>),
                   [categorized_results |-> <<>>, total_conflicts |-> 0, total_duplicates |-> 0])
      file_content ==
        GenerateReport(output_format, counted.categorized_results,
                       counted.total_conflicts, counted.total_duplicates,
                       files_to_search, ignored_patterns)
  IN [categorized_results |-> counted.categorized_results,
      total_conflicts |-> counted.total_conflicts,
      total_duplicates |-> counted.total_duplicates,
      files_to_search_list |-> files_to_search,
      ignored_patterns_list |-> ignored_patterns,
      file_list |-> files_to_process,
      written |-> IF output_file = "writable" THEN file_content ELSE NoReport,
      console |-> IF output_file = None THEN <<>>
                  ELSE IF output_file = "writable" THEN <<"Results also written">>
                  ELSE <<"Error writing to output file">>,
      events |-> [k \in 1..Len(walked) |-> WalkEvent(walked[k])]
                   \o [k \in 1..Len(files_to_process) |-> HashEvent(files_to_process[k].file)]]

\* ------------------------------------------------------- the entry points

\* what an entry point leaves behind: the scan it ran (NoScan when it ran
\* none), the dialogs or console errors it showed, the report file it wrote,
\* the classification and the totals it showed to the user, and the widgets
\* of the GUI
NoScan == [variant |-> "none"]

\* nothing of the kind was shown to the user
NotShown == [shown |-> FALSE]

\* the detailed console report of the CLI: every bucket, filename and record
ShownResult(categorized_results) ==
  [shown |-> TRUE, categorized_results |-> categorized_results]

\* the two totals as the CLI prints them and the GUIs' completion dialog
\* shows them
ShownTotals(total_conflicts, total_duplicates) ==
  [shown |-> TRUE, total_conflicts |-> total_conflicts,
   total_duplicates |-> total_duplicates]

\* a __main__ block that calls find_collisions without the os.path.isdir test
CliMain_unchecked(fs, kind, files_to_search, ignored_patterns, output, output_format) ==
  LET scan == find_collisions_cli(fs, kind, files_to_search, ignored_patterns,
                                  output, output_format)
  IN [scan |-> scan,
      dialogs |-> scan.console,
      disk |-> scan.written,
      result |-> ShownResult(scan.categorized_results),
      totals |-> ShownTotals(scan.total_conflicts, scan.total_duplicates),
      status |-> "", run_button |-> "normal", progress_bar |-> 0, updates |-> <<>>]

\* the __main__ block of the CLI, after the interactive selection
CliMain(fs, kind, files_to_search, ignored_patterns, output, output_format) ==
  IF kind # "dir"
  THEN [scan |-> NoScan,
        dialogs |-> <<"Error: Directory not found">>,
        disk |-> NoReport, result |-> NotShown, totals |-> NotShown,
        status |-> "", run_button |-> "normal", progress_bar |-> 0, updates |-> <<>>]
  ELSE LET scan == find_collisions_cli(fs, kind, files_to_search, ignored_patterns,
                                       output, output_format)
       IN [scan |-> scan,
           dialogs |-> scan.console,
           disk |-> scan.written,
           result |-> ShownResult(scan.categorized_results),
           totals |-> ShownTotals(scan.total_conflicts, scan.total_duplicates),
           status |-> "", run_button |-> "normal", progress_bar |-> 0, updates |-> <<>>]

\* selected_patterns: the checked patterns in the order of the dictionary
SelectedPatterns(file_vars) ==
  SelectSeq(ALL_MAP_RELATED_FILES, LAMBDA p : p # LIGHT_YMAPS /\ file_vars[p])

\* sum(len(data[kind]) for ext, data in categorized_results.items())
RECURSIVE SumOfLens(_, _, _)
SumOfLens(categorized_results, kind, exts) ==
  IF exts = {} THEN 0
  ELSE LET ext == CHOOSE e \in exts : TRUE
       IN Cardinality(DOMAIN categorized_results[ext][kind])
            + SumOfLens(categorized_results, kind, exts \ {ext})

\* total_conflicts / total_duplicates of the GUIs
TotalOf(categorized_results, kind) ==
  SumOfLens(categorized_results, kind, DOMAIN categorized_results)

\* run_checker of the single-shot GUI; kind tells whether the chosen directory
\* exists, output whether the output path is empty, writable or unwritable
RunCheckerGui1(fs, kind, file_vars, output, output_format) ==
  LET selected_patterns == SelectedPatterns(file_vars)
      lightmap_exclusion == file_vars[LIGHT_YMAPS]
      warning == IF selected_patterns = <<>> /\ ~lightmap_exclusion
                 THEN <<"Warning: No map-related file types selected">> ELSE <<>>
      scan == find_collisions_gui1(fs, kind, selected_patterns, lightmap_exclusion)
      total_conflicts == TotalOf(scan.categorized_results, "conflicts")
      total_duplicates == TotalOf(scan.categorized_results, "duplicates")
      report_content ==
        IF output_format = "html"
        THEN GenerateReport(output_format, scan.categorized_results, total_conflicts,
                            total_duplicates, scan.files_to_search_list,
                            scan.ignored_patterns_list)
        ELSE generate_lua_report_gui1(scan.categorized_results, total_conflicts,
                                      total_duplicates, scan.files_to_search_list,
                                      scan.ignored_patterns_list)
      idle == [status |-> "Ready", run_button |-> "normal", progress_bar |-> 0,
               updates |-> <<>>]
  IN IF kind # "dir"
     THEN [scan |-> NoScan, disk |-> NoReport, result |-> NotShown, totals |-> NotShown,
           dialogs |-> <<"Error: Please select a valid FiveM Resources Folder">>] @@ idle
     ELSE IF output = "empty"
     THEN [scan |-> NoScan, disk |-> NoReport, result |-> NotShown, totals |-> NotShown,
           dialogs |-> <<"Error: Please specify an output file path">>] @@ idle
     ELSE IF output = "writable" /\ report_content # ReportRaised
     THEN [scan |-> scan, disk |-> report_content, result |-> NotShown,
           totals |-> ShownTotals(total_conflicts, total_duplicates),
           dialogs |-> warning \o <<"Scan Complete">>,
           status |-> "Scan complete", run_button |-> "normal", progress_bar |-> 0,
           updates |-> <<>>]
     ELSE [scan |-> scan, disk |-> NoReport, result |-> NotShown, totals |-> NotShown,
           dialogs |-> warning \o <<"Error: An unexpected error occurred during the scan">>,
           status |-> "Scan failed", run_button |-> "normal", progress_bar |-> 0,
           updates |-> <<>>]

\* an except clause that leaves the run button as it is
RunButtonAfterFailure_left_disabled == "disabled"

\* self.run_button.config(state=tk.NORMAL) of the except clause
RunButtonAfterFailure == "normal"

\* the statements of run_checker of the progress GUI in the order in which
\* they run, each with the state the run button is in while it runs
StepsGui2(kind, output) ==
  IF kind # "dir"
  THEN << [step |-> "showerror", run_button |-> "normal"] >>
  ELSE << [step |-> "accept", run_button |-> "disabled"],
          [step |-> "find_collisions", run_button |-> "disabled"],
          [step |-> "report", run_button |-> "disabled"],
          [step |-> "write", run_button |-> "disabled"] >>
       \o (IF output = "writable"
           THEN << [step |-> "enable", run_button |-> "normal"],
                   [step |-> "showinfo", run_button |-> "normal"] >>
           ELSE << [step |-> "showerror", run_button |-> "disabled"],
                   [step |-> "enable", run_button |-> RunButtonAfterFailure] >>)

\* run_checker of the progress GUI; an empty output path makes open() raise
\* like an unwritable one
RunCheckerGui2(fs, kind, file_vars, output, output_format) ==
  LET selected_patterns == SelectedPatterns(file_vars)
      lightmap_exclusion == file_vars[LIGHT_YMAPS]
      scan == find_collisions_gui2(fs, kind, selected_patterns, lightmap_exclusion, TRUE)
      total_conflicts == TotalOf(scan.categorized_results, "conflicts")
      total_duplicates == TotalOf(scan.categorized_results, "duplicates")
      report_content ==
        GenerateReport(output_format, scan.categorized_results, total_conflicts,
                       total_duplicates, scan.files_to_search_list,
                       scan.ignored_patterns_list)
      cbs == SelectSeq(scan.events, LAMBDA e : e.ev = "cb")
      updates == [k \in 1..Len(cbs) |-> cbs[k].pct] \o <<98>>
      steps == StepsGui2(kind, output)
  IN IF kind # "dir"
     THEN [scan |-> NoScan, disk |-> NoReport, result |-> NotShown, totals |-> NotShown,
           dialogs |-> <<"Error: Please select a valid FiveM Resources Folder">>,
           status |-> "Ready", run_button |-> steps[Len(steps)].run_button, progress_bar |-> 0,
           updates |-> <<>>, steps |-> steps]
     ELSE IF output = "writable"
     THEN [scan |-> scan, disk |-> report_content, result |-> NotShown,
           totals |-> ShownTotals(total_conflicts, total_duplicates),
           dialogs |-> <<"Scan Complete">>,
           status |-> "Scan complete", run_button |-> steps[Len(steps)].run_button, progress_bar |-> 100,
           updates |-> updates, steps |-> steps]
     ELSE [scan |-> scan, disk |-> NoReport, result |-> NotShown, totals |-> NotShown,
           dialogs |-> <<"Error: An unexpected error occurred during the scan">>,
           status |-> "Scan failed", run_button |-> steps[Len(steps)].run_button, progress_bar |-> 0,
           updates |-> updates, steps |-> steps]

\* the check boxes as __init__ of the single-shot GUI builds them: every
\* pattern checked, "Ignore Light Maps" unchecked
DefaultCheckboxes ==
  [p \in {ALL_MAP_RELATED_FILES[k] : k \in 1..Len(ALL_MAP_RELATED_FILES)} |->
     p # LIGHT_YMAPS]

\* set_all_checkboxes(value): every pattern box gets value, the
\* "Ignore Light Maps" box gets not value
set_all_checkboxes(file_vars, value) ==
  [p \in DOMAIN file_vars |-> IF p = LIGHT_YMAPS THEN ~value ELSE value]

\* ------------------------------------------------- the calls on a tree

vars == <<tree, rootKind, calls, call, ret, prev, app, listing, checkboxes>>

NoCall == [variant |-> "none"]

\* no entry point has run: no dialog, no report file, the widgets as built
AppIdle ==
  [entry |-> "none", output |-> "empty", scan |-> NoScan, dialogs |-> <<>>, disk |-> NoReport,
   result |-> NotShown, totals |-> NotShown,
   status |-> "Ready", run_button |-> "normal", progress_bar |-> 0, updates |-> <<>>]

Init ==
  /\ tree \in Trees
  /\ rootKind = "dir"
  /\ calls = 0
  /\ call = NoCall
  /\ ret = NoCall
  /\ prev = NoCall
  /\ app = AppIdle
  /\ listing = PoolOrder(DOMAIN tree)
  /\ checkboxes = DefaultCheckboxes

\* find_collisions(directory, file_patterns, lightmap_exclusion, progress_callback)
\* of the progress GUI, on the current tree
FindCollisionsGui2 ==
  /\ calls = 0
  /\ \E file_patterns \in PatternLists, lightmap_exclusion \in BOOLEAN,
        progress_callback \in BOOLEAN :
       /\ call' = [variant |-> "gui2", file_patterns |-> file_patterns,
                   lightmap_exclusion |-> lightmap_exclusion,
                   progress_callback |-> progress_callback]
       /\ ret' = find_collisions_gui2(tree, rootKind, file_patterns,
                                      lightmap_exclusion, progress_callback)
  /\ calls' = calls + 1
  /\ prev' = [call |-> call, ret |-> ret]
  /\ UNCHANGED <<tree, rootKind, app, listing, checkboxes>>

\* find_collisions(directory, file_patterns, lightmap_exclusion) of the
\* single-shot GUI, on the current tree
FindCollisionsGui1 ==
  /\ calls = 0
  /\ \E file_patterns \in PatternLists, lightmap_exclusion \in BOOLEAN :
       /\ call' = [variant |-> "gui1", file_patterns |-> file_patterns,
                   lightmap_exclusion |-> lightmap_exclusion,
                   progress_callback |-> FALSE]
       /\ ret' = find_collisions_gui1(tree, rootKind, file_patterns, lightmap_exclusion)
  /\ calls' = calls + 1
  /\ prev' = [call |-> call, ret |-> ret]
  /\ UNCHANGED <<tree, rootKind, app, listing, checkboxes>>

\* find_collisions(directory, files_to_search, ignored_patterns) of the CLI,
\* with the lists the interactive selection produces and no output file
FindCollisionsCli ==
  /\ calls = 0
  /\ \E files_to_search \in PatternLists, light_map_ignored \in BOOLEAN :
       /\ call' = [variant |-> "cli", file_patterns |-> files_to_search,
                   lightmap_exclusion |-> light_map_ignored,
                   progress_callback |-> FALSE]
       /\ ret' = find_collisions_cli(tree, rootKind, files_to_search,
                    InteractiveIgnoredPatterns(files_to_search, light_map_ignored),
                    None, "lua")
  /\ calls' = calls + 1
  /\ prev' = [call |-> call, ret |-> ret]
  /\ UNCHANGED <<tree, rootKind, app, listing, checkboxes>>

\* a second find_collisions call of the progress GUI on the unchanged tree,
\* with the same directory, patterns and exclusion, and with or without a
\* callback
FindCollisionsAgain ==
  /\ calls = 1
  /\ call.variant = "gui2"
  /\ \E progress_callback \in BOOLEAN :
       /\ call' = [call EXCEPT !.progress_callback = progress_callback]
       /\ ret' = find_collisions_gui2(tree, rootKind, call.file_patterns,
                                      call.lightmap_exclusion, progress_callback)
  /\ calls' = calls + 1
  /\ prev' = [call |-> call, ret |-> ret]
  /\ UNCHANGED <<tree, rootKind, app, listing, checkboxes>>

Next ==
  \/ FindCollisionsCli
  \/ FindCollisionsGui1
  \/ FindCollisionsGui2
  \/ FindCollisionsAgain

Spec == Init /\ [][Next]_vars

\* ------------------------------------------- the programs as users run them

\* what the chosen directory path can be: a directory, a path that does not
\* exist, a regular file, or (the GUIs' entry left blank) the empty string
RootKinds == {"dir", "missing", "file", "unset"}

\* the trees of the program runs
AppTrees ==
  UNION {[S -> FileStates] : S \in {T \in SUBSET Paths : Cardinality(T) <= MaxAppFiles}}

\* readable trees with groups in two extension buckets: every place of the
\* pool named a.ymap or vw_c.ybn (in any case) holds a file
TwoBucketTrees ==
  [{i \in Paths : filename_lower_of[i] \in {filename_lower_of[1], filename_lower_of[4]}}
     -> {file \in FileStates : file.fault = "none"}]

\* the check boxes of the GUIs: the boxes of CheckablePatterns are free, the
\* others are left unchecked
CheckablePatterns == {P_ymap, P_ybn, LIGHT_YMAPS}

FileVars ==
  {[p \in {ALL_MAP_RELATED_FILES[k] : k \in 1..Len(ALL_MAP_RELATED_FILES)} |-> p \in C] :
     C \in SUBSET CheckablePatterns}

\* the output path of a run: writable, unwritable, or not given
OutputPaths == {"writable", "unwritable", "empty"}

OutputFormats == {"lua", "html"}

InitApp ==
  /\ rootKind \in RootKinds
  /\ tree \in (IF rootKind = "dir" THEN AppTrees \cup TwoBucketTrees ELSE {<<>>})
  /\ calls = 0
  /\ call = NoCall
  /\ ret = NoCall
  /\ prev = NoCall
  /\ app = AppIdle
  /\ listing = PoolOrder(DOMAIN tree)
  /\ checkboxes = DefaultCheckboxes

\* python jim_g_collision_checker.py directory [--output o] [--format f],
\* with the answers given to the interactive selection (yes to light_ymaps
\* keeps the light maps in the search)
RunCli ==
  /\ calls = 0
  /\ \E file_vars \in FileVars, output \in OutputPaths, output_format \in OutputFormats :
       LET files_to_search == SelectedPatterns(file_vars)
           ignored_patterns ==
             InteractiveIgnoredPatterns(files_to_search, ~file_vars[LIGHT_YMAPS])
       IN app' = [entry |-> "cli", output |-> output]
                   @@ CliMain(tree, rootKind, files_to_search, ignored_patterns,
                              IF output = "empty" THEN None ELSE output, output_format)
  /\ calls' = calls + 1
  /\ UNCHANGED <<tree, rootKind, call, ret, prev, listing, checkboxes>>

\* a click on the run button of the single-shot GUI
RunGui1 ==
  /\ calls = 0
  /\ \E file_vars \in FileVars, output \in OutputPaths, output_format \in OutputFormats :
       app' = [entry |-> "gui1", output |-> output]
                @@ RunCheckerGui1(tree, rootKind, file_vars, output, output_format)
  /\ calls' = calls + 1
  /\ UNCHANGED <<tree, rootKind, call, ret, prev, listing, checkboxes>>

\* a click on the run button of the progress GUI
RunGui2 ==
  /\ calls = 0
  /\ \E file_vars \in FileVars, output \in OutputPaths, output_format \in OutputFormats :
       app' = [entry |-> "gui2", output |-> output]
                @@ RunCheckerGui2(tree, rootKind, file_vars, output, output_format)
  /\ calls' = calls + 1
  /\ UNCHANGED <<tree, rootKind, call, ret, prev, listing, checkboxes>>

NextApp ==
  \/ RunCli
  \/ RunGui1
  \/ RunGui2

SpecApp == InitApp /\ [][NextApp]_vars

\* --------------------------------------- the classification loop by itself

\* the keys of file_info_dict the loop is run on: names with one extension,
\* with two dots, with a leading dot only, with no dot and with a final dot
GroupNames ==
  { <<"a",".","y","m","a","p">>, <<"a",".","b",".","y","b","n">>,
    <<".","y","m","a","p">>, <<"r","e","a","d","m","e">>, <<"x",".">> }

\* the hashes of the files recorded under one key, in order
GroupHashes ==
  { <<"H1">>, <<"H1","H1">>, <<"H1","H2">>, <<"H1","H1","H2">> }

\* the list file_info_dict holds under filename for the hashes given: the
\* k-th file lies in resource R<k>
GroupInfos(filename, hashes) ==
  [k \in 1..Len(hashes) |->
     [file |-> k,
      path |-> [base |-> ".", dir |-> << <<"R", ToString(k)>> >>, name |-> filename],
      hash |-> hashes[k],
      resource |-> <<"R", ToString(k)>>]]

\* before the loop: categorized_results is empty and no key has been passed
InitClassify ==
  /\ tree = <<>>
  /\ rootKind = "dir"
  /\ calls = 0
  /\ call = NoCall
  /\ ret = [categorized_results |-> categorized_results_new]
  /\ prev = {}
  /\ app = AppIdle
  /\ listing = PoolOrder(DOMAIN tree)
  /\ checkboxes = DefaultCheckboxes

\* one iteration of `for filename, infos in file_info_dict.items()`, on a key
\* the loop has not passed yet
ClassifyGroup ==
  /\ calls < MaxGroups
  /\ \E filename \in GroupNames \ prev, hashes \in GroupHashes :
       /\ call' = [variant |-> "classify", filename |-> filename,
                   infos |-> GroupInfos(filename, hashes)]
       /\ ret' = [categorized_results |->
                    Classify(ret.categorized_results, filename,
                             GroupInfos(filename, hashes))]
       /\ prev' = prev \cup {filename}
  /\ calls' = calls + 1
  /\ UNCHANGED <<tree, rootKind, app, listing, checkboxes>>

NextClassify == ClassifyGroup

SpecClassify == InitClassify /\ [][NextClassify]_vars

\* ------------------------------- the check boxes of the single-shot GUI

InitBoxes ==
  /\ rootKind = "dir"
  /\ tree \in {<<>>} \cup TwoBucketTrees
  /\ calls = 0
  /\ call = NoCall
  /\ ret = NoCall
  /\ prev = NoCall
  /\ app = AppIdle
  /\ listing = PoolOrder(DOMAIN tree)
  /\ checkboxes = DefaultCheckboxes

\* a click on one check box
ToggleCheckbox ==
  /\ \E p \in CheckablePatterns : checkboxes' = [checkboxes EXCEPT ![p] = ~@]
  /\ UNCHANGED <<tree, rootKind, calls, call, ret, prev, app, listing>>

\* a click on "Select All"
SelectAll ==
  /\ checkboxes' = set_all_checkboxes(checkboxes, TRUE)
  /\ UNCHANGED <<tree, rootKind, calls, call, ret, prev, app, listing>>

\* a click on "Deselect All"
DeselectAll ==
  /\ checkboxes' = set_all_checkboxes(checkboxes, FALSE)
  /\ UNCHANGED <<tree, rootKind, calls, call, ret, prev, app, listing>>

\* a click on "Start Collision Check", the output path being writable
StartCheck ==
  /\ \E output_format \in OutputFormats :
       app' = [entry |-> "gui1", output |-> "writable"]
                @@ RunCheckerGui1(tree, rootKind, checkboxes, "writable", output_format)
  /\ UNCHANGED <<tree, rootKind, calls, call, ret, prev, listing, checkboxes>>

NextBoxes ==
  \/ ToggleCheckbox
  \/ SelectAll
  \/ DeselectAll
  \/ StartCheck

SpecBoxes == InitBoxes /\ [][NextBoxes]_vars

\* ------------------------------ one tree scanned by two of the variants

\* a first scan may take any inputs; a second one is made by another variant
\* with the patterns and the exclusion setting of the first
InputsOfVariant(variant, file_patterns, lightmap_exclusion) ==
  \/ calls = 0
  \/ /\ calls = 1
     /\ call.variant # variant
     /\ call.file_patterns = file_patterns
     /\ call.lightmap_exclusion = lightmap_exclusion

\* find_collisions of the progress GUI, without a callback
ScanByGui2 ==
  /\ \E file_patterns \in PatternLists, lightmap_exclusion \in BOOLEAN :
       /\ InputsOfVariant("gui2", file_patterns, lightmap_exclusion)
       /\ call' = [variant |-> "gui2", file_patterns |-> file_patterns,
                   lightmap_exclusion |-> lightmap_exclusion,
                   progress_callback |-> FALSE]
       /\ ret' = find_collisions_gui2(tree, rootKind, file_patterns,
                                      lightmap_exclusion, FALSE)
  /\ calls' = calls + 1
  /\ prev' = [call |-> call, ret |-> ret]
  /\ UNCHANGED <<tree, rootKind, app, listing, checkboxes>>

\* find_collisions of the single-shot GUI
ScanByGui1 ==
  /\ \E file_patterns \in PatternLists, lightmap_exclusion \in BOOLEAN :
       /\ InputsOfVariant("gui1", file_patterns, lightmap_exclusion)
       /\ call' = [variant |-> "gui1", file_patterns |-> file_patterns,
                   lightmap_exclusion |-> lightmap_exclusion,
                   progress_callback |-> FALSE]
       /\ ret' = find_collisions_gui1(tree, rootKind, file_patterns, lightmap_exclusion)
  /\ calls' = calls + 1
  /\ prev' = [call |-> call, ret |-> ret]
  /\ UNCHANGED <<tree, rootKind, app, listing, checkboxes>>

\* find_collisions of the CLI, the exclusion setting given as the
\* "light_ymaps_ignored" marker of ignored_patterns
ScanByCli ==
  /\ \E files_to_search \in PatternLists, light_map_ignored \in BOOLEAN :
       /\ InputsOfVariant("cli", files_to_search, light_map_ignored)
       /\ call' = [variant |-> "cli", file_patterns |-> files_to_search,
                   lightmap_exclusion |-> light_map_ignored,
                   progress_callback |-> FALSE]
       /\ ret' = find_collisions_cli(tree, rootKind, files_to_search,
                    InteractiveIgnoredPatterns(files_to_search, light_map_ignored),
                    None, "lua")
  /\ calls' = calls + 1
  /\ prev' = [call |-> call, ret |-> ret]
  /\ UNCHANGED <<tree, rootKind, app, listing, checkboxes>>

NextVariants ==
  \/ ScanByGui2
  \/ ScanByGui1
  \/ ScanByCli

SpecVariants == Init /\ [][NextVariants]_vars

\* ------------------------------------ one tree listed in two orders

\* every order in which the files of a set can be listed
Orders(S) ==
  {order \in [1..Cardinality(S) -> S] :
     \A a, b \in 1..Cardinality(S) : a # b => order[a] # order[b]}

\* the configurations of the calls on a relisted tree
OrderConfigs ==
  {[variant |-> "gui2", file_patterns |-> file_patterns,
    lightmap_exclusion |-> lightmap_exclusion, progress_callback |-> FALSE] :
     file_patterns \in {<<P_ymap>>, <<P_ymap, P_ybn>>},
     lightmap_exclusion \in BOOLEAN}

\* a find_collisions call of the progress GUI on the tree as first listed
ScanListed ==
  /\ calls = 0
  /\ \E config \in OrderConfigs :
       /\ call' = config
       /\ ret' = find_collisions_gui2(tree, rootKind, config.file_patterns,
                                      config.lightmap_exclusion, config.progress_callback)
  /\ calls' = calls + 1
  /\ prev' = [call |-> call, ret |-> ret]
  /\ UNCHANGED <<tree, rootKind, app, listing, checkboxes>>

\* the operating system lists the same files in another order
Relist ==
  /\ calls = 1
  /\ listing = PoolOrder(DOMAIN tree)
  /\ \E order \in Orders(DOMAIN tree) \ {listing} : listing' = order
  /\ UNCHANGED <<tree, rootKind, calls, call, ret, prev, app, checkboxes>>

\* the same call again, on the tree as listed now
ScanRelisted ==
  /\ calls = 1
  /\ listing # PoolOrder(DOMAIN tree)
  /\ call' = call
  /\ ret' = find_collisions_gui2(tree, rootKind, call.file_patterns,
                                 call.lightmap_exclusion, call.progress_callback)
  /\ calls' = calls + 1
  /\ prev' = [call |-> call, ret |-> ret]
  /\ UNCHANGED <<tree, rootKind, app, listing, checkboxes>>

NextOrder ==
  \/ ScanListed
  \/ Relist
  \/ ScanRelisted

SpecOrder == Init /\ [][NextOrder]_vars

\* ------------------------------------------------ what the claims speak of

\* the filenames reported under conflicts / duplicates, over all buckets
Reported(kind) ==
  {f \in UNION {DOMAIN ret.categorized_results[e][kind] :
                  e \in DOMAIN ret.categorized_results} : TRUE}

\* the records reported for filename f under kind, over all buckets
ReportedLists(kind, f) ==
  {ret.categorized_results[e][kind][f] :
     e \in {x \in DOMAIN ret.categorized_results :
              f \in DOMAIN ret.categorized_results[x][kind]}}

\* the files of the walk output (the candidates), as pool places
CandidateFiles == {ret.file_list[k].file : k \in 1..Len(ret.file_list)}

\* the candidates with lower-cased basename f whose content could be hashed
HashedCandidates(f) ==
  {i \in CandidateFiles : filename_lower_of[i] = f /\ tree[i].fault = "none"}

\* the lower-cased basenames of the candidates
CandidateKeys == {filename_lower_of[i] : i \in CandidateFiles}

\* the distinct content hashes of the hashed candidates named f
Digests(f) == {MD5(tree[i].bytes) : i \in HashedCandidates(f)}

\* a light map by its name: ends in .ymap and starts with lodlights or vw_
IsLightName(i) ==
  LET n == filename_lower_of[i] IN
  /\ Len(n) >= 5 /\ SubSeq(n, Len(n) - 4, Len(n)) = <<".","y","m","a","p">>
  /\ \/ (Len(n) >= 9 /\ SubSeq(n, 1, 9) = <<"l","o","d","l","i","g","h","t","s">>)
     \/ (Len(n) >= 3 /\ SubSeq(n, 1, 3) = <<"v","w","_">>)

\* the name of pool file i matches the pattern "*" followed by a literal
\* suffix: it ends in that suffix
MatchesStarSuffix(i, pat) ==
  LET n == filename_lower_of[i]
      suffix == SubSeq(pat, 2, Len(pat))
  IN Len(n) >= Len(suffix) /\ SubSeq(n, Len(n) - Len(suffix) + 1, Len(n)) = suffix

\* the percentages handed to the progress callback, in order
Percentages ==
  LET cbs == SelectSeq(ret.events, LAMBDA e : e.ev = "cb")
  IN [k \in 1..Len(cbs) |-> cbs[k].pct]

\* what find_collisions did apart from calling the callback
Work(events) == SelectSeq(events, LAMBDA e : e.ev # "cb")

\* the tree without its unreadable files
ReadableTree ==
  [i \in {j \in DOMAIN tree : tree[j].fault = "none"} |-> tree[i]]

\* the classification the last call's variant computes for a tree fs
ClassificationOf(fs) ==
  CASE call.variant = "cli" ->
         find_collisions_cli(fs, rootKind, call.file_patterns,
            InteractiveIgnoredPatterns(call.file_patterns, call.lightmap_exclusion),
            None, "lua").categorized_results
    [] call.variant = "gui1" ->
         find_collisions_gui1(fs, rootKind, call.file_patterns,
            call.lightmap_exclusion).categorized_results
    [] call.variant = "gui2" ->
         find_collisions_gui2(fs, rootKind, call.file_patterns,
            call.lightmap_exclusion, call.progress_callback).categorized_results

\* ------------------------------------------------------------------ claims

\* C1: in every result of find_collisions no filename is reported both as a
\* conflict and as a duplicate, and every reported filename has at least two
\* successfully hashed candidates with that lower-cased basename.
C1_GroupPartition ==
  calls > 0 =>
    /\ Reported("conflicts") \cap Reported("duplicates") = {}
    /\ \A f \in Reported("conflicts") \cup Reported("duplicates") :
         Cardinality(HashedCandidates(f)) >= 2

\* C1 witness: a result that reports a filename while another hashed
\* candidate, alone under its name, is not reported.
C1_Witness ==
  /\ calls > 0
  /\ Reported("conflicts") \cup Reported("duplicates") # {}
  /\ \E f \in CandidateKeys :
       /\ Cardinality(HashedCandidates(f)) = 1
       /\ f \notin Reported("conflicts") \cup Reported("duplicates")

\* C2: a filename with at least two hashed members is a conflict exactly when
\* its members carry two or more distinct hashes, and a duplicate exactly when
\* they all share one hash.
C2_ConflictIffDistinctHashes ==
  calls > 0 =>
    \A f \in CandidateKeys :
      Cardinality(HashedCandidates(f)) >= 2 =>
        /\ f \in Reported("conflicts") <=> Cardinality(Digests(f)) >= 2
        /\ f \in Reported("duplicates") <=> Cardinality(Digests(f)) = 1

\* C2 witness: two same-named files with identical bytes in different
\* resources, reported as duplicates.
C2_Witness ==
  /\ calls > 0
  /\ \E f \in Reported("duplicates") :
       \E i, j \in HashedCandidates(f) :
         /\ i # j
         /\ PathPool[i].dir # <<>> /\ PathPool[j].dir # <<>>
         /\ PathPool[i].dir[1] # PathPool[j].dir[1]
         /\ tree[i].bytes = tree[j].bytes

\* C3: every filename with at least two hashed candidates is reported in one
\* list that holds each of these candidates exactly once, wherever it lies in
\* the tree; a group with three members and two distinct hashes is one
\* conflict of three and no duplicate.
C3_WholeGroupReported ==
  calls > 0 =>
    \A f \in CandidateKeys :
      Cardinality(HashedCandidates(f)) >= 2 =>
        LET lists == ReportedLists("conflicts", f) \cup ReportedLists("duplicates", f)
        IN /\ Cardinality(lists) = 1
           /\ \A infos \in lists :
                /\ {infos[k].file : k \in 1..Len(infos)} = HashedCandidates(f)
                /\ Len(infos) = Cardinality(HashedCandidates(f))
           /\ (Cardinality(HashedCandidates(f)) = 3 /\ Cardinality(Digests(f)) = 2) =>
                /\ ReportedLists("duplicates", f) = {}
                /\ \A infos \in ReportedLists("conflicts", f) : Len(infos) = 3

\* C3 witness: a reported conflict of three members with hashes {H1, H1, H2},
\* two of them in the same resource.
C3_Witness ==
  /\ calls > 0
  /\ \E f \in Reported("conflicts") :
       /\ Cardinality(HashedCandidates(f)) = 3
       /\ Cardinality(Digests(f)) = 2
       /\ \E i, j \in HashedCandidates(f) :
            /\ i # j
            /\ PathPool[i].dir # <<>> /\ PathPool[j].dir # <<>>
            /\ PathPool[i].dir[1] = PathPool[j].dir[1]

\* C4: with light-map exclusion on, no light map (a name ending in .ymap that
\* starts with lodlights or vw_) is in the walk output or in a reported group,
\* whatever the patterns and their order, in all three variants; every other
\* *.ymap file is in the walk output when *.ymap is selected.
C4_LightMapsExcluded ==
  (calls > 0 /\ call.lightmap_exclusion) =>
    /\ \A i \in CandidateFiles : ~IsLightName(i)
    /\ \A kind \in {"conflicts", "duplicates"} :
         \A f \in Reported(kind) : \A infos \in ReportedLists(kind, f) :
           \A k \in 1..Len(infos) : ~IsLightName(infos[k].file)
    /\ \A i \in DOMAIN tree :
         (MatchesStarSuffix(i, P_ymap) /\ ~IsLightName(i)
            /\ InList(P_ymap, call.file_patterns)) => i \in CandidateFiles

\* C4 witness: exclusion on and *.ymap selected after another pattern, a tree
\* with a vw_ light map and an ordinary ymap: only the latter is walked out.
C4_Witness ==
  /\ calls > 0
  /\ call.lightmap_exclusion
  /\ call.file_patterns = <<P_ybn, P_ymap>>
  /\ \E i \in DOMAIN tree : IsLightName(i) /\ i \notin CandidateFiles
  /\ \E i \in CandidateFiles : MatchesStarSuffix(i, P_ymap)

\* C5: a file the light-map exclusion does not remove is in the walk output
\* exactly when its lower-cased name matches one of the selected patterns;
\* with no pattern selected nothing is included and the result is empty.
C5_IncludedIffMatched ==
  calls > 0 =>
    /\ \A i \in DOMAIN tree :
         ~(call.lightmap_exclusion /\ IsLightName(i)) =>
           (i \in CandidateFiles <=>
              \E k \in 1..Len(call.file_patterns) :
                 MatchesStarSuffix(i, call.file_patterns[k]))
    /\ call.file_patterns = <<>> =>
         /\ ret.file_list = <<>>
         /\ Reported("conflicts") \cup Reported("duplicates") = {}

\* C5 witness: one pattern selected, a tree with a file that matches it and a
\* file that does not: the first is walked out, the second is not.
C5_Witness ==
  /\ calls > 0
  /\ Len(call.file_patterns) = 1
  /\ CandidateFiles # {}
  /\ \E i \in DOMAIN tree : ~IsLightName(i) /\ i \notin CandidateFiles

\* C6: an unreadable file is left out of every group and the scan goes on:
\* get_file_hash is called for every candidate, no reported record is an
\* unreadable file, and the classification equals that of the same tree
\* without its unreadable files.
C6_UnreadableSkipped ==
  calls > 0 =>
    /\ {e.file : e \in {ret.events[k] : k \in {n \in 1..Len(ret.events) :
                                                 ret.events[n].ev = "hash"}}}
         = CandidateFiles
    /\ \A kind \in {"conflicts", "duplicates"} :
         \A f \in Reported(kind) : \A infos \in ReportedLists(kind, f) :
           \A k \in 1..Len(infos) : tree[infos[k].file].fault = "none"
    /\ ret.categorized_results = ClassificationOf(ReadableTree)

\* C6 witness: a name with two candidates, one of them unreadable and hashed
\* before a later candidate: the name is not reported.
C6_Witness ==
  /\ calls > 0
  /\ \E f \in CandidateKeys :
       /\ f \notin Reported("conflicts") \cup Reported("duplicates")
       /\ \E i, j \in CandidateFiles :
            /\ i < j
            /\ filename_lower_of[i] = f /\ filename_lower_of[j] = f
            /\ tree[i].fault = "io" /\ tree[j].fault = "none"

\* the error an entry point shows for a root that is no directory
RootErrors ==
  {"Error: Directory not found", "Error: Please select a valid FiveM Resources Folder"}

\* C7: when the root directory does not exist or is not a directory, the run
\* ends with a configuration error before any traversal: find_collisions is
\* not called (no file is walked or hashed), no report is written, and the
\* error, and nothing else, is shown to the user.
C7_InvalidRootRejected ==
  (app.entry # "none" /\ rootKind # "dir") =>
     /\ app.scan = NoScan
     /\ app.disk = NoReport
     /\ Len(app.dialogs) = 1
     /\ app.dialogs[1] \in RootErrors
     /\ app.updates = <<>>

\* C7 witness: the run button of the progress GUI was clicked with a regular
\* file as the folder: the error dialog is all that happened.
C7_Witness ==
  /\ app.entry = "gui2"
  /\ rootKind = "file"
  /\ app.dialogs = <<"Error: Please select a valid FiveM Resources Folder">>
  /\ app.scan = NoScan

\* C8: within one find_collisions call the percentages passed to the callback
\* never decrease.
C8_ProgressMonotonic ==
  calls > 0 =>
    \A i, j \in 1..Len(Percentages) : i <= j => Percentages[i] <= Percentages[j]

\* C8 witness: a call with a callback over three matched files, one of which
\* cannot be hashed.
C8_Witness ==
  /\ calls > 0
  /\ call.progress_callback
  /\ Len(ret.file_list) = 3
  /\ \E i \in CandidateFiles : tree[i].fault = "io"
  /\ Len(Percentages) = 5

\* C9 as claimed: the last callback invocation of every scan reports 100,
\* also when files were hashed.
C9_LastIsHundred ==
  (calls > 0 /\ call.progress_callback) =>
    Percentages[Len(Percentages)] = 100

\* C9 amended: the last callback invocation of find_collisions reports 100
\* when no file matched, and 95 (the analysis message) when one or more files
\* were hashed.
C9_LastIsHundredOrAnalysis ==
  (calls > 0 /\ call.progress_callback) =>
    /\ Len(Percentages) >= 2
    /\ Percentages[Len(Percentages)] = IF ret.file_list = <<>> THEN 100 ELSE 95

\* C9 witness: a call with a callback in which files were hashed and whose
\* last reported percentage is 95.
C9_Witness ==
  /\ calls > 0
  /\ call.progress_callback
  /\ ret.file_list # <<>>
  /\ Percentages[Len(Percentages)] = 95

\* C10: on the same tree and configuration, find_collisions without a
\* callback returns the same classification and the same searched and
\* ignored lists as with one, and scans the same files in the same order.
C10_CallbackOnlyObserves ==
  (calls = 2 /\ call.progress_callback # prev.call.progress_callback) =>
    /\ ret.categorized_results = prev.ret.categorized_results
    /\ ret.files_to_search_list = prev.ret.files_to_search_list
    /\ ret.ignored_patterns_list = prev.ret.ignored_patterns_list
    /\ ret.file_list = prev.ret.file_list
    /\ Work(ret.events) = Work(prev.ret.events)

\* C10 witness: a call without a callback after one with a callback, both
\* reporting a collision, the first having called the callback.
C10_Witness ==
  /\ calls = 2
  /\ prev.call.progress_callback /\ ~call.progress_callback
  /\ Reported("conflicts") # {}
  /\ Len(prev.ret.events) > Len(ret.events)

\* the place of the walk's visit of pool file i in the trace of the last call
WalkPosition(i) ==
  CHOOSE k \in 1..Len(ret.events) : ret.events[k].ev = "walk" /\ ret.events[k].file = i

\* all reported lists of the last call, conflicts and duplicates alike
AllReportedLists ==
  UNION {ReportedLists(kind, f) :
           kind \in {"conflicts", "duplicates"},
           f \in Reported("conflicts") \cup Reported("duplicates")}

\* C11: within each reported group the records are in the order in which the
\* walk came across their files, so the first record is the file the walk
\* met first.
C11_InsertionOrder ==
  calls > 0 =>
    \A infos \in AllReportedLists :
      \A a, b \in 1..Len(infos) :
        a < b => WalkPosition(infos[a].file) < WalkPosition(infos[b].file)

\* C11 witness: a reported group of three whose first record is a file of the
\* root and whose last record lies two directories deep.
C11_Witness ==
  /\ calls > 0
  /\ \E infos \in AllReportedLists :
       /\ Len(infos) = 3
       /\ PathPool[infos[1].file].dir = <<>>
       /\ Len(PathPool[infos[3].file].dir) = 2

\* the name of pool file i, lower-cased letter by letter
LoweredName(i) == Lower(PathPool[i].name)

\* pool file i's lower-cased name matches "*" followed by a literal suffix
LoweredNameMatches(i, pat) ==
  LET n == LoweredName(i)
      suffix == SubSeq(pat, 2, Len(pat))
  IN Len(n) >= Len(suffix) /\ SubSeq(n, Len(n) - Len(suffix) + 1, Len(n)) = suffix

\* C12: files whose names differ only in letter case, in whatever resources,
\* fall into one group, whose key is the lower-cased basename; a file is
\* matched against the patterns by its lower-cased name, so a name stored in
\* upper case is selected by a lower-case pattern.
C12_CaseFolded ==
  calls > 0 =>
    /\ \A i, j \in CandidateFiles :
         (i # j /\ tree[i].fault = "none" /\ tree[j].fault = "none"
            /\ LoweredName(i) = LoweredName(j)) =>
           /\ LoweredName(i) \in Reported("conflicts") \cup Reported("duplicates")
           /\ \E infos \in AllReportedLists :
                {i, j} \subseteq {infos[k].file : k \in 1..Len(infos)}
    /\ \A f \in Reported("conflicts") \cup Reported("duplicates") : f = Lower(f)
    /\ \A i \in DOMAIN tree :
         (~call.lightmap_exclusion
            /\ \E k \in 1..Len(call.file_patterns) :
                  LoweredNameMatches(i, call.file_patterns[k])) =>
           i \in CandidateFiles

\* C12 witness: A.YMAP of one resource and a.ymap of the root, selected by
\* *.ymap, reported together under the key a.ymap.
C12_Witness ==
  /\ calls > 0
  /\ \E infos \in AllReportedLists :
       \E a, b \in 1..Len(infos) :
         /\ PathPool[infos[a].file].name # LoweredName(infos[a].file)
         /\ PathPool[infos[b].file].name = LoweredName(infos[b].file)
         /\ PathPool[infos[a].file].dir # PathPool[infos[b].file].dir
         /\ LoweredName(infos[a].file) \in Reported("conflicts") \cup Reported("duplicates")

GroupCount(categorized_results, kind) ==
  Cardinality(UNION {DOMAIN categorized_results[e][kind] :
                       e \in DOMAIN categorized_results})

\* C14 as claimed: the totals a run shows are group counts in every variant:
\* total conflicts is the number of filenames classified as conflicts, total
\* duplicates the number of filenames classified as duplicates.
C14_TotalsAreGroupCounts ==
  app.totals.shown =>
    /\ app.totals.total_conflicts = GroupCount(app.scan.categorized_results, "conflicts")
    /\ app.totals.total_duplicates = GroupCount(app.scan.categorized_results, "duplicates")

\* C14 witness: a run of the CLI that found one conflicting filename and
\* printed a total of two conflicts.
C14_Witness ==
  /\ app.entry = "cli"
  /\ app.totals.shown
  /\ GroupCount(app.scan.categorized_results, "conflicts") = 1
  /\ app.totals.total_conflicts = 2

\* the reported records of the last call
ReportedRecords ==
  UNION {{infos[k] : k \in 1..Len(infos)} : infos \in AllReportedLists}

\* C15 as claimed: in each variant the resource recorded for a file that lies
\* directly in the root directory is the reserved sentinel, never the file's
\* own name or ".".
C15_RootFilesGetSentinel ==
  calls > 0 =>
    \A info \in ReportedRecords :
      PathPool[info.file].dir = <<>> => info.resource \in {ROOT_DIR, UNKNOWN_RESOURCE}

\* C15 witness: the CLI recorded a root file under its own name as resource.
C15_Witness ==
  /\ calls > 0
  /\ call.variant = "cli"
  /\ \E info \in ReportedRecords :
       /\ PathPool[info.file].dir = <<>>
       /\ info.resource = PathPool[info.file].name

\* the single-shot GUI recorded a root file under the resource "."
C15_WitnessGui1 ==
  /\ calls > 0
  /\ call.variant = "gui1"
  /\ \E info \in ReportedRecords :
       PathPool[info.file].dir = <<>> /\ info.resource = CURDIR

\* the progress GUI records ROOT_DIR for every root file
C15_Gui2RootFilesGetSentinel ==
  (calls > 0 /\ call.variant = "gui2") =>
    \A info \in ReportedRecords :
      PathPool[info.file].dir = <<>> => info.resource = ROOT_DIR

\* C16: for every file below a subdirectory of the root, at any depth, the
\* recorded resource is the first component of the file's path relative to
\* the root, in all three variants.
C16_ResourceIsTopDirectory ==
  calls > 0 =>
    \A info \in ReportedRecords :
      PathPool[info.file].dir # <<>> => info.resource = PathPool[info.file].dir[1]

\* C16 witness: a reported record of a file two directories deep, recorded
\* under the top-level directory, which is not the directory that holds it.
C16_Witness ==
  /\ calls > 0
  /\ \E info \in ReportedRecords :
       /\ Len(PathPool[info.file].dir) = 2
       /\ info.resource = PathPool[info.file].dir[1]
       /\ info.resource # PathPool[info.file].dir[2]

\* the last run computed a classification and then failed to write the
\* report: the output path was unwritable, or, in the progress GUI, empty
WriteFailed ==
  /\ app.scan # NoScan
  /\ \/ app.output = "unwritable"
     \/ (app.output = "empty" /\ app.entry = "gui2")

\* the errors shown for a failed write
WriteErrors ==
  {"Error writing to output file", "Error: An unexpected error occurred during the scan"}

\* the messages shown for a written report
SuccessMessages == {"Results also written", "Scan Complete"}

\* the messages the last run showed
ShownMessages == {app.dialogs[k] : k \in 1..Len(app.dialogs)}

\* C17 as claimed: when writing the report fails, the failure is shown as an
\* error, no success message is shown, no report file exists, and the
\* classification already computed stays available to the user.
C17_WriteFailureKeepsResult ==
  WriteFailed =>
    /\ ShownMessages \cap WriteErrors # {}
    /\ ShownMessages \cap SuccessMessages = {}
    /\ app.disk = NoReport
    /\ app.result = ShownResult(app.scan.categorized_results)

\* C17 witness: the progress GUI found a collision, could not write the
\* report, showed the error and kept neither the classification nor the
\* totals.
C17_Witness ==
  /\ WriteFailed
  /\ app.entry = "gui2"
  /\ GroupCount(app.scan.categorized_results, "conflicts") = 1
  /\ app.result = NotShown
  /\ app.totals = NotShown
  /\ app.status = "Scan failed"

\* the part of C17 that holds in every variant: a failed write is shown as an
\* error, with no success message and no report file
C17_WriteFailureSurfaced ==
  WriteFailed =>
    /\ ShownMessages \cap WriteErrors # {}
    /\ ShownMessages \cap SuccessMessages = {}
    /\ app.disk = NoReport

\* the CLI has printed the classification before it tries to write
C17_CliKeepsResult ==
  (WriteFailed /\ app.entry = "cli") =>
    app.result = ShownResult(app.scan.categorized_results)

\* the buckets that hold filename f, under conflicts or duplicates
BucketsOf(f) ==
  {e \in DOMAIN ret.categorized_results :
     f \in DOMAIN ret.categorized_results[e]["conflicts"]
             \cup DOMAIN ret.categorized_results[e]["duplicates"]}

\* the places of the dots in a sequence of characters
Dots(s) == {k \in 1..Len(s) : s[k] = "."}

\* C18: every reported filename sits in exactly one bucket; the bucket's key
\* is in upper case and, lower-cased, is the end of the filename from its last
\* dot on; a filename without a dot, or whose only dots lead it, sits in the
\* bucket of the empty string, every other filename in a bucket that starts
\* with its last dot.
C18_BucketIsUpperExtension ==
  \A f \in Reported("conflicts") \cup Reported("duplicates") :
    /\ Cardinality(BucketsOf(f)) = 1
    /\ \A e \in BucketsOf(f) :
         /\ e = Upper(e)
         /\ EndsWith(f, Lower(e))
         /\ Dots(e) \subseteq {1}
         /\ (Dots(f) = {} \/ \A k \in 1..Len(f) : k \in Dots(f) => 1..k \subseteq Dots(f))
              <=> e = <<>>
         /\ e # <<>> => Dots(e) = {1}

\* C18 witness: a.ymap reported under .YMAP and, in the same result, a name
\* without an extension reported under the empty string.
C18_Witness ==
  /\ <<"a",".","y","m","a","p">> \in Reported("conflicts")
  /\ BucketsOf(<<"a",".","y","m","a","p">>) = {<<".","Y","M","A","P">>}
  /\ <<"r","e","a","d","m","e">> \in Reported("duplicates")
  /\ BucketsOf(<<"r","e","a","d","m","e">>) = {<<>>}

\* the percentages of the callback invocations made by the hashing loop
HashingPercentages ==
  LET cbs == SelectSeq(ret.events, LAMBDA e : e.ev = "cb" /\ e.msg = "Hashing files")
  IN [k \in 1..Len(cbs) |-> cbs[k].pct]

\* C19: while n >= 1 matched files are hashed, the callback is invoked once
\* right after each file, also after one whose hash failed; the k-th of these
\* invocations carries 10 + floor(80*k/n), every value lies in 10..90 and the
\* one after the last file is 90.
C19_HashingPercentages ==
  (calls > 0 /\ call.progress_callback /\ Len(ret.file_list) >= 1) =>
    LET n == Len(ret.file_list) IN
    /\ Len(HashingPercentages) = n
    /\ \A k \in 1..n : HashingPercentages[k] = 10 + ((80 * k) \div n)
    /\ \A k \in 1..n : HashingPercentages[k] \in 10..90
    /\ HashingPercentages[n] = 90
    /\ \A p \in 1..Len(ret.events) :
         ret.events[p].ev = "hash" =>
           /\ p < Len(ret.events)
           /\ ret.events[p + 1].ev = "cb"
           /\ ret.events[p + 1].msg = "Hashing files"

\* C19 witness: three matched files, the second of them unreadable, reported
\* as 36, 63 and 90.
C19_Witness ==
  /\ calls > 0
  /\ call.progress_callback
  /\ Len(ret.file_list) = 3
  /\ tree[ret.file_list[2].file].fault = "io"
  /\ HashingPercentages = <<36, 63, 90>>

\* the places in the trace of the last call where the callback was invoked
\* with one of the messages given
InvocationsOf(messages) ==
  {p \in 1..Len(ret.events) : ret.events[p].ev = "cb" /\ ret.events[p].msg \in messages}

\* the messages of the last invocation: after the analysis, or with no file
FinalMessages == {"Analyzing results", "No relevant files found"}

\* C20: in a call with a callback the phases are reported in order: the one
\* discovery invocation comes first, before any file is walked or hashed;
\* every hashing invocation comes after it and before the one final
\* invocation, which carries a percentage in 95..100 and is the last thing
\* the call does.
C20_PhasesInOrder ==
  (calls > 0 /\ call.progress_callback) =>
    /\ InvocationsOf({"Collecting file paths"}) = {1}
    /\ InvocationsOf(FinalMessages) = {Len(ret.events)}
    /\ Len(ret.events) >= 2
    /\ ret.events[Len(ret.events)].pct \in 95..100
    /\ \A p \in 1..Len(ret.events) :
         ret.events[p].ev = "cb" /\ ret.events[p].pct >= 95 => p = Len(ret.events)
    /\ \A p \in InvocationsOf({"Hashing files"}) : 1 < p /\ p < Len(ret.events)
    /\ InvocationsOf({"Collecting file paths"} \cup FinalMessages \cup {"Hashing files"})
         = {p \in 1..Len(ret.events) : ret.events[p].ev = "cb"}

\* C20 witness: a call with a callback that walked three files and hashed two
\* of them: discovery, three visits, two hashings each followed by its
\* invocation, and the analysis invocation.
C20_Witness ==
  /\ calls > 0
  /\ call.progress_callback
  /\ Len(ret.events) = 9
  /\ Len(ret.file_list) = 2
  /\ ret.events[1].msg = "Collecting file paths"
  /\ ret.events[2].ev = "walk"
  /\ ret.events[5].ev = "hash"
  /\ ret.events[9].msg = "Analyzing results"

\* a classification with the records of every group as a set
Members(categorized_results) ==
  [e \in DOMAIN categorized_results |->
     [kind \in {"conflicts", "duplicates"} |->
        [f \in DOMAIN categorized_results[e][kind] |->
           {categorized_results[e][kind][f][k] :
              k \in 1..Len(categorized_results[e][kind][f])}]]]

\* C21: two calls on the same files, listed in two different orders, report
\* the same buckets, the same conflict and duplicate filenames and the same
\* members in every group; only the order of the records in a group may
\* differ.
C21_OrderIndependent ==
  calls = 2 =>
    Members(ret.categorized_results) = Members(prev.ret.categorized_results)

\* C21 witness: a group of three with two distinct hashes whose records came
\* out in another order after the relisting.
C21_Witness ==
  /\ calls = 2
  /\ listing # PoolOrder(DOMAIN tree)
  /\ ret.categorized_results # prev.ret.categorized_results
  /\ \E f \in Reported("conflicts") : Cardinality(HashedCandidates(f)) = 3

\* C22: find_collisions of the GUIs leaves the caller's pattern list as it
\* was passed, the "light_ymaps" key being appended to the copy only, and
\* every file of the walk is matched against the patterns passed in.
C22_PatternsFixed ==
  (calls > 0 /\ call.variant \in {"gui1", "gui2"}) =>
    /\ ret.file_patterns = call.file_patterns
    /\ ~InList(LIGHT_YMAPS, ret.file_patterns)
    /\ \A i \in DOMAIN tree :
         ~(call.lightmap_exclusion /\ IsLightName(i)) =>
           (i \in CandidateFiles <=>
              \E k \in 1..Len(call.file_patterns) :
                 LoweredNameMatches(i, call.file_patterns[k]))

\* C22 witness: a call of the single-shot GUI with *.ymap and no exclusion:
\* the returned searched list ends in "light_ymaps", the caller's list does
\* not, and files were matched.
C22_Witness ==
  /\ calls > 0
  /\ call.variant = "gui1"
  /\ InList(LIGHT_YMAPS, ret.files_to_search_list)
  /\ ret.file_patterns = call.file_patterns
  /\ Len(ret.files_to_search_list) = Len(ret.file_patterns) + 1
  /\ CandidateFiles # {}

\* a classification with every group as the set of its files and their hashes
FilesOf(categorized_results) ==
  [e \in DOMAIN categorized_results |->
     [kind \in {"conflicts", "duplicates"} |->
        [f \in DOMAIN categorized_results[e][kind] |->
           {[file |-> categorized_results[e][kind][f][k].file,
             hash |-> categorized_results[e][kind][f][k].hash] :
              k \in 1..Len(categorized_results[e][kind][f])}]]]

\* C23: two variants of find_collisions given the same tree, the same
\* patterns and the same exclusion setting report the same buckets, the same
\* conflict and duplicate filenames and, in every group, the same files with
\* the same hashes.
C23_VariantsAgree ==
  calls = 2 =>
    FilesOf(ret.categorized_results) = FilesOf(prev.ret.categorized_results)

\* C23 witness: the CLI after a GUI, light maps excluded, one file unreadable,
\* a conflict and a duplicate reported, and records that differ between the
\* two (in path or resource) although the files and hashes agree.
C23_Witness ==
  /\ calls = 2
  /\ call.variant = "cli"
  /\ call.lightmap_exclusion
  /\ \E i \in CandidateFiles : tree[i].fault = "io"
  /\ Reported("conflicts") # {}
  /\ ret.categorized_results # prev.ret.categorized_results

\* a run of the progress GUI that completed: the report was written
Gui2Completed ==
  /\ app.entry = "gui2"
  /\ app.dialogs = <<"Scan Complete">>

\* C24: in a run of the progress GUI that completes, the percentages handed
\* to update_progress, those of find_collisions and then the 98 of the report
\* step, never go down, whether or not the scan found files.
C24_UpdatesNonDecreasing ==
  Gui2Completed =>
    \A k \in 1..(Len(app.updates) - 1) : app.updates[k] <= app.updates[k + 1]

\* C24, for the runs whose scan found files: the percentages never go down.
C24_NonDecreasingWhenFilesFound ==
  (Gui2Completed /\ Len(app.scan.file_list) > 0) =>
    \A k \in 1..(Len(app.updates) - 1) : app.updates[k] <= app.updates[k + 1]

\* C24 witness: a completed run whose scan found no file: update_progress
\* got 5, then 100 from the early return, then 98 from run_checker.
C24_Witness ==
  /\ Gui2Completed
  /\ Len(app.scan.file_list) = 0
  /\ app.updates = <<5, 100, 98>>

\* C25 as claimed: in every variant the two summary lines of a written Lua
\* report carry the totals the renderer was handed, the totals over all
\* extension buckets, which are the totals the completion message of the same
\* run shows.
C25_LuaTotalsAreTotalsShown ==
  app.disk.format = "lua" =>
    /\ app.totals.shown
    /\ app.disk.total_conflicts = app.totals.total_conflicts
    /\ app.disk.total_duplicates = app.totals.total_duplicates

\* C25, for the CLI and the progress GUI: the Lua report carries the totals
\* shown.
C25_LuaTotalsOutsideGui1 ==
  (app.disk.format = "lua" /\ app.entry # "gui1") =>
    /\ app.totals.shown
    /\ app.disk.total_conflicts = app.totals.total_conflicts
    /\ app.disk.total_duplicates = app.totals.total_duplicates

\* C25 witness: a Lua report of the single-shot GUI after a scan with groups
\* in two buckets: the completion dialog shows the totals over both buckets,
\* the report the counts of the last bucket.
C25_Witness ==
  /\ app.entry = "gui1"
  /\ app.disk.format = "lua"
  /\ Cardinality(DOMAIN app.scan.categorized_results) = 2
  /\ app.totals.shown
  /\ app.totals.total_conflicts + app.totals.total_duplicates = 2
  /\ app.disk.total_conflicts + app.disk.total_duplicates = 1

\* a run that scanned a valid directory, found no collision and was given an
\* output path that can be written
NoCollisionRun ==
  /\ app.scan # NoScan
  /\ app.output = "writable"
  /\ DOMAIN app.scan.categorized_results = {}

\* C26 as claimed: in every variant a run that finds no collision renders its
\* report, Lua or HTML, without raising: it ends with the report written and
\* the success outcome, never with the "Scan failed" error outcome.
C26_EmptyResultIsRendered ==
  NoCollisionRun =>
    /\ app.disk # NoReport
    /\ app.status # "Scan failed"
    /\ \A k \in 1..Len(app.dialogs) :
         app.dialogs[k] # "Error: An unexpected error occurred during the scan"

\* C26, for the CLI and the progress GUI: the run ends with the report
\* written, in either format.
C26_EmptyResultOutsideGui1 ==
  (NoCollisionRun /\ app.entry # "gui1") =>
    /\ app.disk.format \in {"lua", "html"}
    /\ app.disk.body = <<>>
    /\ app.status # "Scan failed"

\* C26 witness: the single-shot GUI scanned a tree with files in it, found no
\* collision, and ended with the error dialog, "Scan failed" and no report.
C26_Witness ==
  /\ NoCollisionRun
  /\ app.entry = "gui1"
  /\ Len(app.scan.file_list) > 0
  /\ app.disk = NoReport
  /\ app.status = "Scan failed"
  /\ app.totals = NotShown

\* the glob patterns of the vocabulary: every key but "light_ymaps"
GlobPatterns ==
  {ALL_MAP_RELATED_FILES[k] : k \in 1..Len(ALL_MAP_RELATED_FILES)} \ {LIGHT_YMAPS}

\* C27: the searched list and the ignored list of a scan partition the
\* vocabulary: every glob pattern is in exactly one of them, and the ignored
\* list holds the marker "light_ymaps_ignored" exactly when the light-map
\* exclusion is on.
C27_ListsPartitionVocabulary ==
  calls > 0 =>
    /\ \A p \in GlobPatterns :
         InList(p, ret.files_to_search_list) # InList(p, ret.ignored_patterns_list)
    /\ InList(LIGHT_YMAPS_IGNORED, ret.ignored_patterns_list) <=> call.lightmap_exclusion

\* C27 witness: a GUI scan for *.ymap with the exclusion on: *.ymap is
\* searched, *.ybn ignored, and the marker closes the ignored list.
C27_Witness ==
  /\ calls > 0
  /\ call.variant = "gui2"
  /\ call.lightmap_exclusion
  /\ ret.files_to_search_list = <<P_ymap>>
  /\ InList(P_ybn, ret.ignored_patterns_list)
  /\ ret.ignored_patterns_list[Len(ret.ignored_patterns_list)] = LIGHT_YMAPS_IGNORED

\* the patterns the scan of the last run matched filenames against
PatternsUsed ==
  IF app.entry = "cli" THEN app.scan.files_to_search_list ELSE app.scan.file_patterns

\* a report file was written by the last run
ReportWritten == app.disk.format \in {"lua", "html"}

\* C28 as claimed: every entry of the "File Patterns Searched" line of a
\* written report is a pattern the scan matched against, and the entry
\* "*.ymap (including lights)" appears only if *.ymap was selected.
C28_SearchedLineIsTruthful ==
  ReportWritten =>
    \A k \in 1..Len(app.disk.patterns_searched) :
       LET entry == app.disk.patterns_searched[k] IN
       IF entry = YMAP_INCLUDING_LIGHTS
       THEN InList(P_ymap, PatternsUsed)
       ELSE InList(entry, PatternsUsed)

\* C28, without the *.ymap label: every other entry of the line is a pattern
\* the scan matched against, and every such pattern is on the line.
C28_PlainEntriesAreUsed ==
  ReportWritten =>
    /\ \A k \in 1..Len(app.disk.patterns_searched) :
         app.disk.patterns_searched[k] # YMAP_INCLUDING_LIGHTS =>
           InList(app.disk.patterns_searched[k], PatternsUsed)
    /\ \A k \in 1..Len(PatternsUsed) :
         InList(PatternsUsed[k], app.disk.patterns_searched)

\* C28 witness: a report of a scan for *.ybn only, light maps not excluded,
\* that found a duplicate: its line reads "*.ybn, *.ymap (including lights)".
C28_Witness ==
  /\ ReportWritten
  /\ PatternsUsed = <<P_ybn>>
  /\ app.disk.patterns_searched = <<P_ybn, YMAP_INCLUDING_LIGHTS>>
  /\ GroupCount(app.scan.categorized_results, "duplicates") = 1

\* the steps of the last run that ran with the run button disabled
DisabledSteps ==
  {app.steps[k].step : k \in {n \in 1..Len(app.steps) : app.steps[n].run_button = "disabled"}}

Warned == InList("Warning: No map-related file types selected", app.dialogs)

\* the last run started a scan with no pattern selected
ScanWithNothingSelected ==
  /\ app.entry = "gui1"
  /\ app.scan # NoScan
  /\ app.scan.file_patterns = <<>>

\* C30 as claimed: whenever the single-shot GUI starts a scan with no pattern
\* selected, whatever clicks on the check boxes, "Select All" and
\* "Deselect All" came before, the user is warned that the scan will find
\* nothing.
C30_WarnedWhenNothingSelected ==
  ScanWithNothingSelected => Warned

\* C30, with the light-map box unchecked as well: the user is warned.
C30_WarnedWhenNoBoxChecked ==
  (ScanWithNothingSelected /\ ~InList(LIGHT_YMAPS_IGNORED, app.scan.ignored_patterns_list))
    => Warned

\* C30 witness: "Deselect All", then "Start Collision Check": no pattern is
\* selected, the light-map box is checked, and no warning was shown.
C30_Witness ==
  /\ checkboxes = set_all_checkboxes(DefaultCheckboxes, FALSE)
  /\ ScanWithNothingSelected
  /\ InList(LIGHT_YMAPS_IGNORED, app.scan.ignored_patterns_list)
  /\ ~Warned

====
